---- MODULE Spec2Model ----
(***************************************************************************)
(* A model of PerformerAttention (FAVOR+ linear attention):                *)
(*   src/src/transformers/modeling_performer_attention.py      (PyTorch)   *)
(*   src/src/transformers/modeling_tf_performer_attention.py   (TensorFlow)*)
(*                                                                         *)
(* The module object is modelled as a state machine: its attributes are    *)
(* the variables, and __init__, forward/call, redraw_features_now and      *)
(* prune_heads are the actions.  Tensors are abstracted where only the     *)
(* control flow matters (the random feature matrix is the ordinal of the   *)
(* draw that produced it) and are small integer arrays where the           *)
(* arithmetic matters (the causal recurrences and the attention sums).     *)
(***************************************************************************)
EXTENDS Integers, Sequences, FiniteSets, TLC

(***************************************************************************)
(* Bounds of the model.                                                    *)
(***************************************************************************)
MaxHeads == 2
MaxDModel == 4
MaxSeqLen == 2
MaxBatch == 1
MaxInterval == 2
MaxDraws == 3
MaxLen == 2
MaxFeat == 2
MaxHeadDim == 2
MaxRoot == 2
MaxKernelOutput == 4
MaxEpsilon == 2
MaxNormalizer == 6
MaxStabilizer == 4

(***************************************************************************)
(* Python's None for the optional integer attributes (num_heads, d_model,  *)
(* feature_redraw_interval) and for random_features before the first draw. *)
(***************************************************************************)
NoneVal == -1
NoMatrix == 0

VARIABLES
    phase,                      \* "new" | "ready" | "failed" (the constructor raised)
    backend,                    \* "torch" | "tf": which of the two source files
    kernel_type,
    short_sequence_behavior,    \* the value supplied in the configuration
    fallback_policy,            \* what should_fallback_to_softmax was bound to
    num_heads,
    d_model,
    causal,                     \* attribute read by the exact-softmax path (torch)
    casual,                     \* attribute read by the approximate path (torch)
    use_orthogonal_features,
    feature_redraw_interval,
    redraw_stochastically,
    dropout_active,             \* attention_dropout > 0
    calls_since_last_redraw,
    random_features,            \* NoMatrix, or the ordinal of the stored draw
    pruned_heads,
    ret,                        \* what the last call did and returned
    orig_num_heads,             \* history: num_heads at construction
    orig_head_size,             \* history: d_model // num_heads at construction
    requested_heads,            \* history: every head index passed to prune_heads
    calls_since_change,         \* history: scheduler runs since the matrix last changed
    q_prime,                    \* [L][M] projected queries of one (batch, head)
    k_prime,                    \* [L][M] projected keys
    v,                          \* [L][D] values
    numer,                      \* the CausalNumerator call: ctx, result, gradients
    attn,                       \* two forward calls on inputs that differ at one position
    feature_map,                \* one entry of q' or k' made from a kernel output
    normalizer,                 \* one entry of d before and after the adjustment
    denom                       \* the CausalDenominator call: ctx, result, gradients

cfgVars == <<backend, kernel_type, short_sequence_behavior, fallback_policy,
             causal, casual, use_orthogonal_features, feature_redraw_interval,
             redraw_stochastically, dropout_active, orig_num_heads, orig_head_size>>

functionVars == <<feature_map, normalizer, denom>>

tensorVars == <<q_prime, k_prime, v, numer, attn, feature_map, normalizer, denom>>

vars == <<phase, backend, kernel_type, short_sequence_behavior, fallback_policy,
          num_heads, d_model, causal, casual, use_orthogonal_features,
          feature_redraw_interval, redraw_stochastically, dropout_active,
          calls_since_last_redraw, random_features, pruned_heads, ret,
          orig_num_heads, orig_head_size, requested_heads, calls_since_change,
          q_prime, k_prime, v, numer, attn, feature_map, normalizer, denom>>

(***************************************************************************)
(* Module-level tables.                                                    *)
(***************************************************************************)
KERNEL_CALLABLES == {"cosh", "exp", "elu", "relu"}

BehaviorNames == {"use_softmax_eval_only", "use_softmax_eval_and_train", "never_use_softmax"}

\* The table with the threshold comparison made inclusive.
ShortSequenceInclusiveThreshold(name, L, M, training) ==
    CASE name = "use_softmax_eval_only"      -> IF training THEN FALSE ELSE L <= 2 * M
      [] name = "use_softmax_eval_and_train" -> L <= 2 * M
      [] name = "never_use_softmax"          -> FALSE

\* SHORT_SEQUENCE_BEHAVIOR_CALLABLES[name](L, M, training)
SHORT_SEQUENCE_BEHAVIOR_CALLABLES(name, L, M, training) ==
    CASE name = "use_softmax_eval_only"      -> IF training THEN FALSE ELSE L < 2 * M
      [] name = "use_softmax_eval_and_train" -> L < 2 * M
      [] name = "never_use_softmax"          -> FALSE

\* round(dim_per_head * np.log(dim_per_head)), tabulated (natural logarithm)
NumFeatures(dim_per_head) ==
    CASE dim_per_head = 1  -> 0
      [] dim_per_head = 2  -> 1
      [] dim_per_head = 3  -> 3
      [] dim_per_head = 4  -> 6
      [] dim_per_head = 5  -> 8
      [] dim_per_head = 6  -> 11
      [] dim_per_head = 7  -> 14
      [] dim_per_head = 8  -> 17
      [] dim_per_head = 9  -> 20
      [] dim_per_head = 10 -> 23
      [] dim_per_head = 11 -> 26
      [] dim_per_head = 12 -> 30

NoRet == [op |-> "none", kind |-> "none", error |-> "", path |-> "none",
          L |-> 0, training |-> FALSE,
          output_attentions |-> FALSE, sched |-> "none"]

(***************************************************************************)
(* __init__                                                                *)
(***************************************************************************)
\* The values short_sequence_behavior can be given: nothing (falsy), one of
\* the three names, an unknown name, a caller's callable, or a value that is
\* neither a string nor callable.
BehaviorValues == {"None", "callable", "unknown_name", "not_str_or_callable"} \cup BehaviorNames

KernelValues == KERNEL_CALLABLES \cup {"unknown_kernel"}

\* ResolveBehavior without the relu check of line 155.
ResolveBehaviorNoReluCheck(kernel, behavior) ==
    IF behavior = "None"
    THEN [error |-> "", policy |-> IF kernel = "relu" THEN "never_use_softmax"
                                   ELSE "use_softmax_eval_only"]
    ELSE IF behavior \in BehaviorNames
    THEN [error |-> "", policy |-> behavior]
    ELSE IF behavior = "unknown_name"
    THEN [error |-> "KeyError", policy |-> "unset"]
    ELSE IF behavior = "callable"
    THEN [error |-> "", policy |-> "callable"]
    ELSE [error |-> "ValueError", policy |-> "unset"]

\* Lines 150-164: what should_fallback_to_softmax is bound to, or the error.
ResolveBehavior(kernel, behavior) ==
    IF behavior = "None"
    THEN [error |-> "", policy |-> IF kernel = "relu" THEN "never_use_softmax"
                                   ELSE "use_softmax_eval_only"]
    ELSE IF kernel = "relu" /\ behavior # "never_use_softmax"
    THEN [error |-> "ValueError", policy |-> "unset"]
    ELSE IF behavior \in BehaviorNames
    THEN [error |-> "", policy |-> behavior]
    ELSE IF behavior = "unknown_name"
    THEN [error |-> "KeyError", policy |-> "unset"]
    ELSE IF behavior = "callable"
    THEN [error |-> "", policy |-> "callable"]
    ELSE [error |-> "ValueError", policy |-> "unset"]

\* Line 168: assert self.d_model % self.num_heads == 0
Divisible(dm, nh) == dm % nh = 0

\* The exception __init__ raises for a configuration, "" when it returns.
ConstructError(cfg) ==
    IF cfg.num_heads = NoneVal \/ cfg.d_model = NoneVal THEN "ValueError"
    ELSE IF ResolveBehavior(cfg.kernel_type, cfg.short_sequence_behavior).error # ""
    THEN ResolveBehavior(cfg.kernel_type, cfg.short_sequence_behavior).error
    ELSE IF cfg.kernel_type \notin KERNEL_CALLABLES THEN "KeyError"
    ELSE IF ~Divisible(cfg.d_model, cfg.num_heads) THEN "AssertionError"
    ELSE ""

\* The configurations explored: every kernel, fallback behaviour and size
\* with one scheduling setup, and every scheduling setup with one kernel
\* and size.
ConstructionConfigs ==
    [backend : {"torch", "tf"},
     kernel_type : KernelValues,
     short_sequence_behavior : BehaviorValues,
     num_heads : {NoneVal} \cup (1..MaxHeads),
     d_model : {NoneVal} \cup (1..MaxDModel),
     causal : {FALSE},
     casual : {"false"},
     use_orthogonal_features : {TRUE},
     feature_redraw_interval : {1},
     redraw_stochastically : {FALSE},
     dropout_active : BOOLEAN]

SchedulingConfigs ==
    [backend : {"torch", "tf"},
     kernel_type : {"exp"},
     short_sequence_behavior : {"None", "never_use_softmax"},
     num_heads : {1},
     d_model : {2},
     causal : {FALSE},
     casual : {"unset", "false"},
     use_orthogonal_features : BOOLEAN,
     feature_redraw_interval : {NoneVal} \cup (1..MaxInterval),
     redraw_stochastically : BOOLEAN,
     dropout_active : {FALSE}]

Configs == ConstructionConfigs \cup SchedulingConfigs

Constructor(cfg) ==
    /\ UNCHANGED tensorVars
    /\ backend' = cfg.backend
    /\ kernel_type' = cfg.kernel_type
    /\ short_sequence_behavior' = cfg.short_sequence_behavior
    /\ num_heads' = cfg.num_heads
    /\ d_model' = cfg.d_model
    /\ causal' = cfg.causal
    /\ casual' = cfg.casual
    /\ use_orthogonal_features' = cfg.use_orthogonal_features
    /\ feature_redraw_interval' = cfg.feature_redraw_interval
    /\ redraw_stochastically' = cfg.redraw_stochastically
    /\ dropout_active' = cfg.dropout_active
    /\ calls_since_last_redraw' = 0
    /\ random_features' = NoMatrix
    /\ pruned_heads' = {}
    /\ requested_heads' = {}
    /\ calls_since_change' = 0
    /\ LET err == ConstructError(cfg) IN
       /\ phase' = IF err = "" THEN "ready" ELSE "failed"
       /\ fallback_policy' = IF err = "" THEN ResolveBehavior(cfg.kernel_type, cfg.short_sequence_behavior).policy
                             ELSE "unset"
       /\ orig_num_heads' = IF err = "" THEN cfg.num_heads ELSE 0
       /\ orig_head_size' = IF err = "" THEN cfg.d_model \div cfg.num_heads ELSE 0
       /\ ret' = [NoRet EXCEPT !.op = "__init__",
                               !.kind = IF err = "" THEN "ok" ELSE "error",
                               !.error = err]

(***************************************************************************)
(* RandomFeatureGenerator and FeatureRedrawScheduler                       *)
(***************************************************************************)
\* _generate_feature_matrix: the matrix stored on the module afterwards.
\* With use_orthogonal_features false the draw is returned to the caller
\* (line 397) and self.random_features is not assigned; otherwise line 424
\* stores a fresh draw.
generate_feature_matrix(rf, orthogonal) ==
    IF ~orthogonal THEN rf ELSE rf + 1

\* A redraw that keeps the call counter.
redraw_features_keeping_count(be, rf, calls, orthogonal) ==
    IF be = "torch" /\ rf = NoMatrix
    THEN [error |-> "AttributeError", rf |-> rf, calls |-> calls]
    ELSE [error |-> "", rf |-> generate_feature_matrix(rf, orthogonal), calls |-> calls]

\* redraw_features_now: torch reads self.random_features.device first
\* (line 197), which raises on None; tf does not.
redraw_features_now(be, rf, calls, orthogonal) ==
    IF be = "torch" /\ rf = NoMatrix
    THEN [error |-> "AttributeError", rf |-> rf, calls |-> calls]
    ELSE [error |-> "", rf |-> generate_feature_matrix(rf, orthogonal), calls |-> 0]

\* _redraw_features_if_needed; coin is the outcome of binomial(1, 1/interval).
redraw_features_if_needed(be, rf, calls, interval, stochastic, orthogonal, coin) ==
    IF rf = NoMatrix
    THEN [rf |-> generate_feature_matrix(rf, orthogonal), calls |-> calls, sched |-> "generate"]
    ELSE IF interval # NoneVal
    THEN IF stochastic
         THEN IF coin
              THEN [rf |-> redraw_features_now(be, rf, calls, orthogonal).rf,
                    calls |-> redraw_features_now(be, rf, calls, orthogonal).calls,
                    sched |-> "redraw"]
              ELSE [rf |-> rf, calls |-> calls, sched |-> "idle"]
         ELSE IF calls >= interval
              THEN [rf |-> redraw_features_now(be, rf, calls, orthogonal).rf,
                    calls |-> redraw_features_now(be, rf, calls, orthogonal).calls,
                    sched |-> "redraw"]
              ELSE [rf |-> rf, calls |-> calls + 1, sched |-> "increment"]
    ELSE [rf |-> rf, calls |-> calls, sched |-> "idle"]

\* The outcomes np.random.default_rng().binomial(1, 1. / interval) can have.
CoinOutcomes(interval, stochastic) ==
    IF stochastic /\ interval # NoneVal /\ interval > 1 THEN BOOLEAN
    ELSE IF stochastic /\ interval = 1 THEN {TRUE}
    ELSE {FALSE}

(***************************************************************************)
(* forward / call                                                          *)
(***************************************************************************)
\* self.should_fallback_to_softmax(q_length, m, self.training); custom is
\* what a caller-supplied callable answers.
should_fallback_to_softmax(policy, L, M, training, custom) ==
    IF policy = "callable" THEN custom
    ELSE SHORT_SEQUENCE_BEHAVIOR_CALLABLES(policy, L, M, training)

\* _finalize_attention_output: `if att_map_to_output:` takes the truth value
\* of a tensor.  None is falsy; a tensor of more than one element raises; a
\* tensor of one element is truthy unless that element is 0 (the softmax of
\* one score is 1.0, which dropout may zero while training).
finalize_attention_output(be, given, numel, dropped) ==
    IF ~given THEN [kind |-> "context", error |-> ""]
    ELSE IF numel > 1
    THEN [kind |-> "error", error |-> IF be = "torch" THEN "RuntimeError" ELSE "ValueError"]
    ELSE IF dropped THEN [kind |-> "context", error |-> ""]
    ELSE [kind |-> "context_weights", error |-> ""]

\* The refusal left out.
NeverRefusesAttentions(output_attentions) == FALSE

\* Line 260: the approximate path refuses to output attention maps.
RefusesAttentions(output_attentions) == output_attentions

\* The scheduler's history: runs since the stored matrix last changed.
SinceChange(rf, rf2, since) ==
    IF rf2 # rf THEN 0
    ELSE IF since <= MaxInterval THEN since + 1 ELSE since

\* The scheduler run although the call does not reach the approximate
\* computation.
SchedulerConsultedAnyway ==
    \E c \in CoinOutcomes(feature_redraw_interval, redraw_stochastically) :
       LET s == redraw_features_if_needed(backend, random_features,
                    calls_since_last_redraw, feature_redraw_interval,
                    redraw_stochastically, use_orthogonal_features, c)
       IN /\ s.rf <= MaxDraws
          /\ random_features' = s.rf
          /\ calls_since_last_redraw' = s.calls
          /\ calls_since_change' = SinceChange(random_features, s.rf, calls_since_change)

\* Lines 243-263: the call returns from the fallback branch or raises for
\* output_attentions before line 265 (self._redraw_features_if_needed).
SchedulerNotConsulted ==
    UNCHANGED <<random_features, calls_since_last_redraw, calls_since_change>>

forward(bs, L, output_attentions, training, coin, dropped, custom) ==
    /\ UNCHANGED <<phase, cfgVars, num_heads, d_model, pruned_heads, requested_heads>>
    /\ UNCHANGED tensorVars
    /\ LET call == [NoRet EXCEPT !.op = "forward", !.L = L,
                                 !.training = training,
                                 !.output_attentions = output_attentions]
       IN
       IF num_heads = 0
       THEN \* line 222: self.d_model // self.num_heads
            /\ ret' = [call EXCEPT !.kind = "error", !.error = "ZeroDivisionError"]
            /\ UNCHANGED <<random_features, calls_since_last_redraw, calls_since_change>>
       ELSE
       LET dim_per_head == d_model \div num_heads
           m == NumFeatures(dim_per_head)
       IN
       IF should_fallback_to_softmax(fallback_policy, L, m, training, custom)
       THEN LET fin == finalize_attention_output(backend, TRUE, bs * num_heads * L * L, dropped)
            IN
            /\ ret' = [call EXCEPT !.path = "softmax",
                                   !.kind = fin.kind, !.error = fin.error]
            /\ SchedulerNotConsulted
       ELSE IF RefusesAttentions(output_attentions)
       THEN /\ ret' = [call EXCEPT !.path = "favor",
                                   !.kind = "error", !.error = "ValueError"]
            /\ SchedulerNotConsulted
       ELSE LET s == redraw_features_if_needed(backend, random_features,
                         calls_since_last_redraw, feature_redraw_interval,
                         redraw_stochastically, use_orthogonal_features, coin)
                fin == finalize_attention_output(backend, FALSE, 0, FALSE)
            IN
            /\ s.rf <= MaxDraws
            /\ random_features' = s.rf
            /\ calls_since_last_redraw' = s.calls
            /\ calls_since_change' = SinceChange(random_features, s.rf, calls_since_change)
            /\ ret' = IF s.rf = NoMatrix
                      THEN \* get_projected_queries_and_keys: self.random_features.shape
                           [call EXCEPT !.path = "favor", !.sched = s.sched,
                                        !.kind = "error", !.error = "AttributeError"]
                      ELSE IF backend = "torch" /\ casual = "unset"
                      THEN \* line 339: self.casual
                           [call EXCEPT !.path = "favor", !.sched = s.sched,
                                        !.kind = "error", !.error = "AttributeError"]
                      ELSE [call EXCEPT !.path = "favor", !.sched = s.sched,
                                        !.kind = fin.kind, !.error = fin.error]

\* The public redraw_features_now().
RedrawNow ==
    /\ phase = "ready"
    /\ UNCHANGED <<phase, cfgVars, num_heads, d_model, pruned_heads, requested_heads>>
    /\ UNCHANGED tensorVars
    /\ LET r == redraw_features_now(backend, random_features, calls_since_last_redraw,
                                    use_orthogonal_features)
       IN
       /\ r.rf <= MaxDraws
       /\ random_features' = r.rf
       /\ calls_since_last_redraw' = r.calls
       /\ calls_since_change' = IF r.rf # random_features THEN 0 ELSE calls_since_change
       /\ ret' = [NoRet EXCEPT !.op = "redraw_features_now",
                               !.kind = IF r.error = "" THEN "ok" ELSE "error",
                               !.error = r.error]

(***************************************************************************)
(* prune_heads                                                             *)
(***************************************************************************)
\* find_pruneable_heads_and_indices (modeling_utils): the heads asked for
\* that are not pruned yet.
find_pruneable_heads(heads, already_pruned_heads) == heads \ already_pruned_heads

\* The bookkeeping with pruned_heads overwritten instead of extended.
PruneBookkeepingOverwrite(nh, dm, pruned, heads) ==
    LET attention_head_size == dm \div nh
        todo == find_pruneable_heads(heads, pruned)
    IN [num_heads |-> nh - Cardinality(todo),
        d_model |-> attention_head_size * (nh - Cardinality(todo)),
        pruned_heads |-> todo]

\* Lines 192-194: the bookkeeping after the linear layers are pruned.
PruneBookkeeping(nh, dm, pruned, heads) ==
    LET attention_head_size == dm \div nh
        todo == find_pruneable_heads(heads, pruned)
    IN [num_heads |-> nh - Cardinality(todo),
        d_model |-> attention_head_size * (nh - Cardinality(todo)),
        pruned_heads |-> pruned \cup todo]

prune_heads(heads) ==
    /\ UNCHANGED <<phase, cfgVars, random_features, calls_since_last_redraw, calls_since_change>>
    /\ UNCHANGED tensorVars
    /\ requested_heads' = requested_heads \cup heads
    /\ IF num_heads = 0
       THEN \* line 180: self.d_model // self.num_heads
            /\ ret' = [NoRet EXCEPT !.op = "prune_heads", !.kind = "error",
                                    !.error = "ZeroDivisionError"]
            /\ UNCHANGED <<num_heads, d_model, pruned_heads>>
       ELSE IF heads = {}
       THEN /\ ret' = [NoRet EXCEPT !.op = "prune_heads", !.kind = "ok"]
            /\ UNCHANGED <<num_heads, d_model, pruned_heads>>
       ELSE LET b == PruneBookkeeping(num_heads, d_model, pruned_heads, heads) IN
            /\ num_heads' = b.num_heads
            /\ d_model' = b.d_model
            /\ pruned_heads' = b.pruned_heads
            /\ ret' = [NoRet EXCEPT !.op = "prune_heads", !.kind = "ok"]

(***************************************************************************)
(* Tensors of one (batch, head) pair: a tensor of shape [L, n] is a        *)
(* sequence of L vectors, a matrix of shape [M, D] a sequence of M rows.   *)
(* The einsum calls of the source carry the batch and head indices "ij"    *)
(* through unchanged, so each (batch, head) is computed independently.     *)
(***************************************************************************)
RECURSIVE SumTo(_, _)
SumTo(f, n) == IF n = 0 THEN 0 ELSE f[n] + SumTo(f, n - 1)

Dot(a, b) == SumTo([i \in 1..Len(a) |-> a[i] * b[i]], Len(a))

\* torch.zeros_like(torch.einsum("ijk,ijl->ijkl", a, b))
ZerosLikeOuter(a, b) == [k \in 1..Len(a) |-> [l \in 1..Len(b) |-> 0]]

\* torch.einsum("ijk,ijl->ijkl", a, b)
Outer(a, b) == [k \in 1..Len(a) |-> [l \in 1..Len(b) |-> a[k] * b[l]]]

MatAdd(A, B) == [k \in 1..Len(A) |-> [l \in 1..Len(A[k]) |-> A[k][l] + B[k][l]]]

MatSub(A, B) == [k \in 1..Len(A) |-> [l \in 1..Len(A[k]) |-> A[k][l] - B[k][l]]]

\* torch.einsum("ijkl,ijk->ijl", A, x): contracts the row index k.
EinsumContractRows(A, x) ==
    [l \in 1..Len(A[1]) |-> SumTo([k \in 1..Len(A) |-> A[k][l] * x[k]], Len(A))]

\* Whether torch.einsum("ijkl,ijl->ijk", A, x) accepts the shapes: the sizes
\* of the contracted index l must agree or one of them be 1 (broadcast).
EinsumColsShapesOk(A, x) == Len(A[1]) = Len(x) \/ Len(A[1]) = 1 \/ Len(x) = 1

\* torch.einsum("ijkl,ijl->ijk", A, x): contracts the column index l,
\* a size-1 l of either operand broadcast along the other's.
EinsumContractCols(A, x) ==
    LET n == IF Len(A[1]) >= Len(x) THEN Len(A[1]) ELSE Len(x)
        a(k, l) == IF Len(A[1]) = 1 THEN A[k][1] ELSE A[k][l]
        b(l) == IF Len(x) = 1 THEN x[1] ELSE x[l]
    IN [k \in 1..Len(A) |-> SumTo([l \in 1..n |-> a(k, l) * b(l)], n)]

\* x[::-1]
Reversed(x) == [i \in 1..Len(x) |-> x[Len(x) + 1 - i]]

(***************************************************************************)
(* CausalNumerator                                                         *)
(***************************************************************************)
NoCall == [stage |-> "idle", result |-> <<>>, sums |-> <<>>, grad_outputs |-> <<>>,
           q_grads |-> <<>>, k_grads |-> <<>>, v_grads |-> <<>>, error |-> ""]

\* One pass of the forward loop with the output emitted before the
\* position's own key and value are accumulated.
NumeratorEmitBeforeUpdate(index, sums, q, k, val) ==
    [sums |-> MatAdd(sums, Outer(k[index], val[index])),
     out |-> EinsumContractRows(sums, q[index])]

\* Lines 45-46: one pass of the forward loop.
NumeratorForwardStep(index, sums, q, k, val) ==
    LET sums2 == MatAdd(sums, Outer(k[index], val[index]))
    IN [sums |-> sums2, out |-> EinsumContractRows(sums2, q[index])]

\* Lines 44-46: for index in range(q_prime.shape[0])
RECURSIVE NumeratorForwardLoop(_, _, _, _, _, _)
NumeratorForwardLoop(index, sums, result, q, k, val) ==
    IF index > Len(q) THEN [sums |-> sums, result |-> result]
    ELSE LET st == NumeratorForwardStep(index, sums, q, k, val)
         IN NumeratorForwardLoop(index + 1, st.sums, Append(result, st.out), q, k, val)

\* CausalNumerator.forward: the result and the sums saved for backward.
CausalNumeratorForward(q, k, val) ==
    NumeratorForwardLoop(1, ZerosLikeOuter(k[1], val[1]), <<>>, q, k, val)

\* Lines 64-70: for index in range(q_prime.shape[0] - 1, -1, -1); the
\* lists are in append order (last position first).
RECURSIVE NumeratorBackwardLoop(_, _, _, _, _, _, _, _, _, _)
NumeratorBackwardLoop(index, grads, gr_sums, q_grads, k_grads, v_grads, q, k, val, g) ==
    IF index < 1
    THEN [q_grads |-> q_grads, k_grads |-> k_grads, v_grads |-> v_grads, error |-> ""]
    ELSE LET grads2 == MatAdd(grads, Outer(q[index], g[index]))
         IN IF ~EinsumColsShapesOk(grads2, k[index])
            THEN [q_grads |-> <<>>, k_grads |-> <<>>, v_grads |-> <<>>,
                  error |-> "RuntimeError"]
            ELSE NumeratorBackwardLoop(index - 1, grads2,
                     MatSub(gr_sums, Outer(k[index], val[index])),
                     Append(q_grads, EinsumContractCols(gr_sums, g[index])),
                     Append(k_grads, EinsumContractCols(grads2, k[index])),
                     Append(v_grads, EinsumContractRows(grads2, k[index])),
                     q, k, val, g)

\* CausalNumerator.backward
CausalNumeratorBackward(q, k, val, sums, g) ==
    LET r == NumeratorBackwardLoop(Len(q), ZerosLikeOuter(k[1], val[1]), sums,
                                   <<>>, <<>>, <<>>, q, k, val, g)
    IN [q_grads |-> Reversed(r.q_grads), k_grads |-> Reversed(r.k_grads),
        v_grads |-> Reversed(r.v_grads), error |-> r.error]

\* The inputs explored.  The recurrences are multilinear in their inputs,
\* so the unit tensors span every input; one dense tensor with distinct
\* rows exercises several accumulated positions at once.
UnitTensors(L, n) ==
    { [t \in 1..L |-> [i \in 1..n |-> IF t = a /\ i = b THEN 1 ELSE 0]] :
        a \in 1..L, b \in 1..n }

DenseTensor(L, n) == [t \in 1..L |-> [i \in 1..n |-> t + i]]

Tensors(L, n) == UnitTensors(L, n) \cup {DenseTensor(L, n)}

NumeratorForward ==
    /\ numer.stage = "idle"
    /\ numer' = [numer EXCEPT !.stage = "forward",
                     !.result = CausalNumeratorForward(q_prime, k_prime, v).result,
                     !.sums = CausalNumeratorForward(q_prime, k_prime, v).sums]
    /\ UNCHANGED <<q_prime, k_prime, v, attn>>
    /\ UNCHANGED functionVars
    /\ UNCHANGED <<phase, cfgVars, num_heads, d_model, pruned_heads, requested_heads,
                   random_features, calls_since_last_redraw, calls_since_change, ret>>

NumeratorBackward ==
    /\ numer.stage = "forward"
    /\ \E g \in Tensors(Len(v), Len(v[1])) :
         LET b == CausalNumeratorBackward(q_prime, k_prime, v, numer.sums, g)
         IN numer' = [numer EXCEPT !.stage = "backward", !.grad_outputs = g,
                          !.q_grads = b.q_grads, !.k_grads = b.k_grads,
                          !.v_grads = b.v_grads, !.error = b.error]
    /\ UNCHANGED <<q_prime, k_prime, v, attn>>
    /\ UNCHANGED functionVars
    /\ UNCHANGED <<phase, cfgVars, num_heads, d_model, pruned_heads, requested_heads,
                   random_features, calls_since_last_redraw, calls_since_change, ret>>

(***************************************************************************)
(* CausalDenominator                                                       *)
(***************************************************************************)
VecAdd(a, b) == [i \in 1..Len(a) |-> a[i] + b[i]]

\* Lines 92-94: for index in range(q_prime.shape[0])
RECURSIVE DenominatorForwardLoop(_, _, _, _, _)
DenominatorForwardLoop(index, sums, result, q, k) ==
    IF index > Len(q) THEN [sums |-> sums, result |-> result]
    ELSE LET sums2 == VecAdd(sums, k[index])
         IN DenominatorForwardLoop(index + 1, sums2, Append(result, Dot(q[index], sums2)), q, k)

\* CausalDenominator.forward
CausalDenominatorForward(q, k) ==
    DenominatorForwardLoop(1, [i \in 1..Len(k[1]) |-> 0], <<>>, q, k)

(***************************************************************************)
(* The attention of one (batch, head) on the two paths of forward.  An     *)
(* output row is kept as its numerator vector and its denominator (the     *)
(* softmax normaliser, or d of normalize_output; 1 when not normalised).   *)
(* Dropout is the identity (evaluation mode); head_mask and out_lin act    *)
(* on each position separately.                                            *)
(***************************************************************************)
\* The unnormalised softmax weight of a score: positive and increasing
\* (2^x stands for exp(x / sqrt(dim)) on the non-negative integer scores).
ExpWeight(x) == 2 ^ x

\* Line 250-253: torch masks key i for query s when tril is 0, i.e. i > s,
\* if self.causal; the tf fallback (lines 146-154) applies no causal mask.
CausalMasked(be, causal_flag, s, i) == be = "torch" /\ causal_flag /\ i > s

\* Lines 243-257: scores, masks, softmax, attn_map @ v.
SoftmaxAttention(be, causal_flag, q, k, val) ==
    LET w(s, i) == IF CausalMasked(be, causal_flag, s, i) THEN 0
                   ELSE ExpWeight(Dot(q[s], k[i]))
    IN [s \in 1..Len(q) |->
          [num |-> [l \in 1..Len(val[1]) |->
                       SumTo([i \in 1..Len(k) |-> w(s, i) * val[i][l]], Len(k))],
           den |-> SumTo([i \in 1..Len(k) |-> w(s, i)], Len(k))]]

\* Whether the approximate path runs the causal recurrences: torch reads
\* self.casual (lines 339 and 355); tf has no causal branch (lines 209-227).
UsesCausalRecurrence(be, casual_attr) == be = "torch" /\ casual_attr = "true"

\* Line 349: k_prime_t @ v, an [M, D] matrix.
KeyValueProduct(k, val) ==
    [a \in 1..Len(k[1]) |-> [l \in 1..Len(val[1]) |->
        SumTo([i \in 1..Len(k) |-> k[i][a] * val[i][l]], Len(k))]]

\* k_prime.sum(dim=-2)
SumOverSequence(k) ==
    [a \in 1..Len(k[1]) |-> SumTo([i \in 1..Len(k) |-> k[i][a]], Len(k))]

\* tf.math.reduce_sum(k_prime): no axis, the sum of every entry.
SumOverAll(k) == SumTo([a \in 1..Len(k[1]) |-> SumOverSequence(k)[a]], Len(k[1]))

Abs(x) == IF x < 0 THEN 0 - x ELSE x

\* An adjustment that adds the stabilizer once.
StabilizeByStabilizer(d, stabilizer) ==
    IF Abs(d) <= stabilizer THEN d + stabilizer ELSE d

\* Line 369 (tf line 224): d += 2 * normalization_stabilizer *
\* (abs(d) <= normalization_stabilizer), d and the stabilizer in one unit.
StabilizeNormalizer(d, stabilizer) ==
    IF Abs(d) <= stabilizer THEN d + 2 * stabilizer ELSE d

\* The keys used as given, whatever the mask.
IgnoreKeyMask(k, mask) == k

\* Lines 321-323 (tf line 212): k_prime *= mask, the mask of the batch
\* element broadcast over heads and features; <<>> is mask = None.
ApplyKeyMask(k, mask) ==
    IF mask = <<>> THEN k
    ELSE [i \in 1..Len(k) |-> [a \in 1..Len(k[i]) |-> k[i][a] * mask[i]]]

\* compute_attention_with_projected_queries_and_keys.
FavorAttention(be, casual_attr, normalize, stabilizer, mask, q, k, val) ==
    IF be = "torch" /\ casual_attr = "unset"
    THEN [error |-> "AttributeError", out |-> <<>>]
    ELSE IF be = "tf" /\ normalize /\ Len(q[1]) # 1
    THEN \* line 221: q_prime @ a vector of length 1
         [error |-> "InvalidArgumentError", out |-> <<>>]
    ELSE
    LET causal_branch == UsesCausalRecurrence(be, casual_attr)
        km == ApplyKeyMask(k, mask)
        numerator == IF causal_branch THEN CausalNumeratorForward(q, km, val).result
                     ELSE [t \in 1..Len(q) |-> EinsumContractRows(KeyValueProduct(km, val), q[t])]
        d == IF causal_branch THEN CausalDenominatorForward(q, km).result
             ELSE IF be = "torch" THEN [t \in 1..Len(q) |-> Dot(q[t], SumOverSequence(km))]
             ELSE [t \in 1..Len(q) |-> q[t][1] * SumOverAll(km)]
    IN [error |-> "",
        out |-> [t \in 1..Len(q) |->
                   [num |-> numerator[t],
                    den |-> IF normalize THEN StabilizeNormalizer(d[t], stabilizer)
                            ELSE 1]]]

\* The attention part of forward on the path the fallback policy chose
\* (the exact-softmax path is called without a mask).
Attention(be, path, causal_flag, casual_attr, normalize, stabilizer, mask, q, k, val) ==
    IF path = "softmax"
    THEN [error |-> "", out |-> SoftmaxAttention(be, causal_flag, q, k, val)]
    ELSE FavorAttention(be, casual_attr, normalize, stabilizer, mask, q, k, val)

NoAttention == [stage |-> "idle", path |-> "none", normalize_output |-> FALSE,
                normalization_stabilizer |-> 0, mask |-> <<>>,
                q |-> <<>>, k |-> <<>>, v |-> <<>>, t |-> 0, k2 |-> <<>>, v2 |-> <<>>,
                error |-> "", out |-> <<>>, out2 |-> <<>>]

\* Positive inputs: all ones, or all ones with one entry raised to 2.
PositiveTensors(L, n) ==
    { [t \in 1..L |-> [i \in 1..n |-> 1]] } \cup
    { [t \in 1..L |-> [i \in 1..n |-> IF t = a /\ i = b THEN 2 ELSE 1]] :
        a \in 1..L, b \in 1..n }

\* x with row t replaced by row
WithRow(x, t, row) == [x EXCEPT ![t] = row]

\* The first forward call.
AttendFirst ==
    /\ phase = "ready"
    /\ attn.stage = "idle"
    /\ LET a == Attention(backend, attn.path, causal, casual, attn.normalize_output,
                          attn.normalization_stabilizer, attn.mask,
                          attn.q, attn.k, attn.v)
       IN attn' = [attn EXCEPT !.stage = "first", !.error = a.error, !.out = a.out]
    /\ UNCHANGED <<q_prime, k_prime, v, numer>>
    /\ UNCHANGED functionVars
    /\ UNCHANGED <<phase, cfgVars, num_heads, d_model, pruned_heads, requested_heads,
                   random_features, calls_since_last_redraw, calls_since_change, ret>>

\* The second forward call: the same input but for the key and the value
\* at position t.
AttendSecond ==
    /\ phase = "ready"
    /\ attn.stage = "first"
    /\ attn.error = ""
    /\ \E t \in 1..Len(attn.q), dk \in {0, 1}, dv \in {0, 1} :
         /\ dk + dv > 0
         /\ LET k2 == WithRow(attn.k, t, [i \in 1..Len(attn.k[t]) |-> attn.k[t][i] + dk])
                v2 == WithRow(attn.v, t, [i \in 1..Len(attn.v[t]) |-> attn.v[t][i] + dv])
                a == Attention(backend, attn.path, causal, casual, attn.normalize_output,
                               attn.normalization_stabilizer, attn.mask,
                               attn.q, k2, v2)
            IN attn' = [attn EXCEPT !.stage = "both", !.t = t, !.k2 = k2, !.v2 = v2,
                                    !.out2 = a.out]
    /\ UNCHANGED <<q_prime, k_prime, v, numer>>
    /\ UNCHANGED functionVars
    /\ UNCHANGED <<phase, cfgVars, num_heads, d_model, pruned_heads, requested_heads,
                   random_features, calls_since_last_redraw, calls_since_change, ret>>

(***************************************************************************)
(* get_projected_queries_and_keys: from the kernel output to q', k'.       *)
(* Values are integers in one unit.  The feature count                     *)
(* q_kernel_output.shape[-1] is root * root, so that its power -0.5 is     *)
(* 1 / root and root * prime is an integer.                                *)
(***************************************************************************)
\* The values an entry of the kernel output can take: relu is >= 0, exp,
\* cosh and elu(x) + 1 are > 0.
KernelOutputs(kernel) ==
    IF kernel = "relu" THEN 0..MaxKernelOutput ELSE 1..MaxKernelOutput

\* Lines 305-313: root times an entry of q' (or k'):
\* normalizing_constant * (kernel_output + kernel_epsilon) for cosh and exp,
\* kernel_fn(x) + kernel_epsilon for the other kernels.
ProjectedPrimeTimesRoot(kernel, kernel_output, kernel_epsilon, root) ==
    IF kernel \in {"cosh", "exp"}
    THEN kernel_output + kernel_epsilon
    ELSE root * (kernel_output + kernel_epsilon)

NoFeatureMap == [stage |-> "idle", kernel |-> "exp", root |-> 1, kernel_output |-> 1,
                 kernel_epsilon |-> 1, prime_times_root |-> 0]

ProjectFeatures ==
    /\ feature_map.stage = "input"
    /\ feature_map' = [feature_map EXCEPT !.stage = "done",
                          !.prime_times_root =
                              ProjectedPrimeTimesRoot(feature_map.kernel,
                                  feature_map.kernel_output, feature_map.kernel_epsilon,
                                  feature_map.root)]
    /\ UNCHANGED <<q_prime, k_prime, v, numer, attn, normalizer, denom>>
    /\ UNCHANGED <<phase, cfgVars, num_heads, d_model, pruned_heads, requested_heads,
                   random_features, calls_since_last_redraw, calls_since_change, ret>>

(***************************************************************************)
(* The adjustment of one entry of the normaliser d.                        *)
(***************************************************************************)
NoNormalizer == [stage |-> "idle", d |-> 0, normalization_stabilizer |-> 1, adjusted |-> 0]

AdjustNormalizer ==
    /\ normalizer.stage = "input"
    /\ normalizer' = [normalizer EXCEPT !.stage = "done",
                         !.adjusted = StabilizeNormalizer(normalizer.d,
                                          normalizer.normalization_stabilizer)]
    /\ UNCHANGED <<q_prime, k_prime, v, numer, attn, feature_map, denom>>
    /\ UNCHANGED <<phase, cfgVars, num_heads, d_model, pruned_heads, requested_heads,
                   random_features, calls_since_last_redraw, calls_since_change, ret>>

(***************************************************************************)
(* CausalDenominator.backward.  A tensor built by the backward pass is     *)
(* kept as its shape (without the batch and head axes, which every         *)
(* operation carries through) and its rows in position order.              *)
(***************************************************************************)
\* A [B, H, M] tensor: the M-vector of one (batch, head).
TensorOf(vec) == [shape |-> <<Len(vec)>>, rows |-> <<vec>>]

\* x[None, Ellipsis]
Unsqueeze(x) == [shape |-> <<1>> \o x.shape, rows |-> x.rows]

\* torch.cat(list, dim=0) of tensors of one shape.
RECURSIVE Cat(_)
Cat(list) ==
    IF Len(list) = 1 THEN Head(list)
    ELSE LET rest == Cat(Tail(list))
         IN [shape |-> <<Head(list).shape[1] + rest.shape[1]>> \o Tail(rest.shape),
             rows |-> Head(list).rows \o rest.rows]

\* torch.einsum("ijk,ij->ijk", a, c)
EinsumScale(a, c) == [i \in 1..Len(a) |-> a[i] * c]

VecSub(a, b) == [i \in 1..Len(a) |-> a[i] - b[i]]

\* Lines 108-113: for index in range(q_prime.shape[0] - 1, -1, -1); the
\* lists are in append order (last position first).
RECURSIVE DenominatorBackwardLoop(_, _, _, _, _, _, _, _)
DenominatorBackwardLoop(index, k_grad, gr_sums, q_grads, k_grads, q, k, g) ==
    IF index < 1 THEN [q_grads |-> q_grads, k_grads |-> k_grads]
    ELSE LET k_grad2 == VecAdd(k_grad, EinsumScale(q[index], g[index]))
         IN DenominatorBackwardLoop(index - 1, k_grad2, VecSub(gr_sums, k[index]),
                Append(q_grads, Unsqueeze(TensorOf(EinsumScale(gr_sums, g[index])))),
                Append(k_grads, Unsqueeze(Unsqueeze(TensorOf(k_grad2)))),
                q, k, g)

\* CausalDenominator.backward
CausalDenominatorBackward(q, k, sums, g) ==
    LET r == DenominatorBackwardLoop(Len(q), [i \in 1..Len(k[1]) |-> 0], sums,
                                     <<>>, <<>>, q, k, g)
    IN [q_grads |-> Cat(Reversed(r.q_grads)), k_grads |-> Cat(Reversed(r.k_grads))]

\* The grad_outputs explored, one scalar per position: the unit vectors
\* and one dense vector.
GradOutputs(L) ==
    { [t \in 1..L |-> IF t = a THEN 1 ELSE 0] : a \in 1..L } \cup { [t \in 1..L |-> t] }

NoDenominatorCall == [stage |-> "idle", result |-> <<>>, sums |-> <<>>,
                      grad_outputs |-> <<>>, q_grads |-> <<>>, k_grads |-> <<>>]

DenominatorForward ==
    /\ denom.stage = "input"
    /\ denom' = [denom EXCEPT !.stage = "forward",
                     !.result = CausalDenominatorForward(q_prime, k_prime).result,
                     !.sums = CausalDenominatorForward(q_prime, k_prime).sums]
    /\ UNCHANGED <<q_prime, k_prime, v, numer, attn, feature_map, normalizer>>
    /\ UNCHANGED <<phase, cfgVars, num_heads, d_model, pruned_heads, requested_heads,
                   random_features, calls_since_last_redraw, calls_since_change, ret>>

DenominatorBackward ==
    /\ denom.stage = "forward"
    /\ \E g \in GradOutputs(Len(q_prime)) :
         LET b == CausalDenominatorBackward(q_prime, k_prime, denom.sums, g)
         IN denom' = [denom EXCEPT !.stage = "backward", !.grad_outputs = g,
                          !.q_grads = b.q_grads, !.k_grads = b.k_grads]
    /\ UNCHANGED <<q_prime, k_prime, v, numer, attn, feature_map, normalizer>>
    /\ UNCHANGED <<phase, cfgVars, num_heads, d_model, pruned_heads, requested_heads,
                   random_features, calls_since_last_redraw, calls_since_change, ret>>

NoFunctionCalls ==
    /\ feature_map = NoFeatureMap
    /\ normalizer = NoNormalizer
    /\ denom = NoDenominatorCall

NoTensors ==
    /\ q_prime = <<>>
    /\ k_prime = <<>>
    /\ v = <<>>
    /\ numer = NoCall
    /\ NoFunctionCalls
    /\ attn = NoAttention

Unconstructed ==
    /\ phase = "new"
    /\ backend = "torch"
    /\ kernel_type = "exp"
    /\ short_sequence_behavior = "None"
    /\ fallback_policy = "unset"
    /\ num_heads = NoneVal
    /\ d_model = NoneVal
    /\ causal = FALSE
    /\ casual = "unset"
    /\ use_orthogonal_features = TRUE
    /\ feature_redraw_interval = NoneVal
    /\ redraw_stochastically = FALSE
    /\ dropout_active = FALSE
    /\ calls_since_last_redraw = 0
    /\ random_features = NoMatrix
    /\ pruned_heads = {}
    /\ ret = NoRet
    /\ orig_num_heads = 0
    /\ orig_head_size = 0
    /\ requested_heads = {}
    /\ calls_since_change = 0

Init ==
    /\ Unconstructed
    /\ NoTensors

Construct ==
    /\ phase = "new"
    /\ \E cfg \in Configs : Constructor(cfg)

Forward ==
    /\ phase = "ready"
    /\ \E bs \in 1..MaxBatch, L \in 1..MaxSeqLen, output_attentions \in BOOLEAN,
          training \in BOOLEAN :
         \E dropped \in (IF training /\ dropout_active THEN BOOLEAN ELSE {FALSE}),
            custom \in (IF fallback_policy = "callable" THEN BOOLEAN ELSE {FALSE}),
            coin \in CoinOutcomes(feature_redraw_interval, redraw_stochastically) :
              forward(bs, L, output_attentions, training, coin, dropped, custom)

PruneHeads ==
    /\ phase = "ready"
    /\ \E heads \in SUBSET (0..(orig_num_heads - 1)) : prune_heads(heads)

Next ==
    \/ Construct
    \/ Forward
    \/ RedrawNow
    \/ PruneHeads

Spec == Init /\ [][Next]_vars

\* The causal recurrences applied to every input of the bounded shapes.
InitRecurrence ==
    /\ Unconstructed
    /\ \E L \in 1..MaxLen, M \in 1..MaxFeat, D \in 1..MaxHeadDim :
         /\ q_prime \in Tensors(L, M)
         /\ k_prime \in Tensors(L, M)
         /\ v \in Tensors(L, D)
    /\ numer = NoCall
    /\ NoFunctionCalls
    /\ attn = NoAttention

NextRecurrence ==
    \/ NumeratorForward
    \/ NumeratorBackward

SpecRecurrence == InitRecurrence /\ [][NextRecurrence]_vars

\* Constructed modules of both backends with every setting of the causal
\* attributes, about to attend on either path.
InitCausality ==
    /\ phase = "ready"
    /\ backend \in {"torch", "tf"}
    /\ kernel_type = "exp"
    /\ short_sequence_behavior = "use_softmax_eval_and_train"
    /\ fallback_policy = "use_softmax_eval_and_train"
    /\ num_heads = 1
    /\ d_model \in 1..MaxHeadDim
    /\ causal \in BOOLEAN
    /\ casual \in {"unset", "false", "true"}
    /\ use_orthogonal_features = TRUE
    /\ feature_redraw_interval = NoneVal
    /\ redraw_stochastically = FALSE
    /\ dropout_active = FALSE
    /\ calls_since_last_redraw = 0
    /\ random_features = NoMatrix
    /\ pruned_heads = {}
    /\ ret = NoRet
    /\ orig_num_heads = 1
    /\ orig_head_size = d_model
    /\ requested_heads = {}
    /\ calls_since_change = 0
    /\ q_prime = <<>>
    /\ k_prime = <<>>
    /\ v = <<>>
    /\ numer = NoCall
    /\ NoFunctionCalls
    /\ \E L \in 1..MaxLen, M \in 1..MaxFeat, path \in {"softmax", "favor"},
          normalize \in BOOLEAN :
         \E q \in PositiveTensors(L, IF path = "softmax" THEN d_model ELSE M),
            k \in PositiveTensors(L, IF path = "softmax" THEN d_model ELSE M),
            val \in Tensors(L, d_model) :
              /\ path = "softmax" => (M = 1 /\ ~normalize)
              /\ attn = [NoAttention EXCEPT !.path = path, !.normalize_output = normalize,
                                            !.q = q, !.k = k, !.v = val]

NextCausality ==
    \/ AttendFirst
    \/ AttendSecond

SpecCausality == InitCausality /\ [][NextCausality]_vars

\* mask = None, or one 0/1 entry per key position of the batch element.
KeyMasks(L) == {<<>>} \cup [1..L -> {0, 1}]

\* Constructed PyTorch modules about to attend on the non-causal
\* approximate path with and without a key-padding mask.  One value column
\* is enough: column l of the output depends on column l of v only.
InitKeyMask ==
    /\ phase = "ready"
    /\ backend = "torch"
    /\ kernel_type = "exp"
    /\ short_sequence_behavior = "never_use_softmax"
    /\ fallback_policy = "never_use_softmax"
    /\ num_heads = 1
    /\ d_model = 1
    /\ causal = FALSE
    /\ casual = "false"
    /\ use_orthogonal_features = TRUE
    /\ feature_redraw_interval = NoneVal
    /\ redraw_stochastically = FALSE
    /\ dropout_active = FALSE
    /\ calls_since_last_redraw = 0
    /\ random_features = NoMatrix
    /\ pruned_heads = {}
    /\ ret = NoRet
    /\ orig_num_heads = 1
    /\ orig_head_size = d_model
    /\ requested_heads = {}
    /\ calls_since_change = 0
    /\ q_prime = <<>>
    /\ k_prime = <<>>
    /\ v = <<>>
    /\ numer = NoCall
    /\ NoFunctionCalls
    /\ \E L \in 1..MaxLen, M \in 1..MaxFeat, normalize \in BOOLEAN :
         \E q \in Tensors(L, M), k \in Tensors(L, M), val \in Tensors(L, d_model),
            mask \in KeyMasks(L) :
              attn = [NoAttention EXCEPT !.path = "favor", !.normalize_output = normalize,
                          !.normalization_stabilizer = IF normalize THEN 1 ELSE 0,
                          !.mask = mask, !.q = q, !.k = k, !.v = val]

SpecKeyMask == InitKeyMask /\ [][NextCausality]_vars

\* The feature map applied to every kernel output of the bounded ranges.
InitFeatureMap ==
    /\ Unconstructed
    /\ q_prime = <<>>
    /\ k_prime = <<>>
    /\ v = <<>>
    /\ numer = NoCall
    /\ attn = NoAttention
    /\ normalizer = NoNormalizer
    /\ denom = NoDenominatorCall
    /\ \E kernel \in KERNEL_CALLABLES, root \in 1..MaxRoot, eps \in 1..MaxEpsilon :
         \E kernel_output \in KernelOutputs(kernel) :
            feature_map = [NoFeatureMap EXCEPT !.stage = "input", !.kernel = kernel,
                               !.root = root, !.kernel_output = kernel_output,
                               !.kernel_epsilon = eps]

NextFeatureMap ==
    \/ ProjectFeatures

SpecFeatureMap == InitFeatureMap /\ [][NextFeatureMap]_vars

\* The adjustment applied to every d of the bounded range, in the unit of
\* the (positive) stabilizer.
InitNormalizer ==
    /\ Unconstructed
    /\ q_prime = <<>>
    /\ k_prime = <<>>
    /\ v = <<>>
    /\ numer = NoCall
    /\ attn = NoAttention
    /\ feature_map = NoFeatureMap
    /\ denom = NoDenominatorCall
    /\ \E d \in (0 - MaxNormalizer)..MaxNormalizer, stabilizer \in 1..MaxStabilizer :
         normalizer = [NoNormalizer EXCEPT !.stage = "input", !.d = d,
                           !.normalization_stabilizer = stabilizer]

NextNormalizer ==
    \/ AdjustNormalizer

SpecNormalizer == InitNormalizer /\ [][NextNormalizer]_vars

\* CausalDenominator applied to every input of the bounded shapes.
InitDenominator ==
    /\ Unconstructed
    /\ \E L \in 1..MaxLen, M \in 1..MaxFeat :
         /\ q_prime \in Tensors(L, M)
         /\ k_prime \in Tensors(L, M)
    /\ v = <<>>
    /\ numer = NoCall
    /\ attn = NoAttention
    /\ feature_map = NoFeatureMap
    /\ normalizer = NoNormalizer
    /\ denom = [NoDenominatorCall EXCEPT !.stage = "input"]

NextDenominator ==
    \/ DenominatorForward
    \/ DenominatorBackward

SpecDenominator == InitDenominator /\ [][NextDenominator]_vars

(***************************************************************************)
(* Properties.                                                             *)
(***************************************************************************)
\* C1: with a fixed feature_redraw_interval = k and redraw_stochastically
\* false, a forward call on the approximate path replaces the stored matrix
\* exactly when it is the k-th call since the matrix last changed (so
\* replacements are k calls apart and the matrix is identical in between).
C1_RedrawExactlyEveryK ==
    [][(/\ phase = "ready"
        /\ ~redraw_stochastically
        /\ feature_redraw_interval # NoneVal
        /\ random_features # NoMatrix
        /\ ret'.op = "forward"
        /\ ret'.sched # "none")
       => ((random_features' # random_features)
             <=> (calls_since_change = feature_redraw_interval - 1))]_vars

\* C2: after a forward call whose scheduler step found no feature matrix,
\* a matrix is stored on the module (random_features is not None).
C2_MatrixStoredAfterFirstUse ==
    (ret.op = "forward" /\ ret.sched = "generate") => random_features # NoMatrix

\* C6: a forward call that takes the approximate path with output_attentions
\* requested ends in an explicit error and returns nothing.
C6_ApproximatePathRefusesAttentions ==
    (ret.op = "forward" /\ ret.path = "favor" /\ ret.output_attentions)
        => (ret.kind = "error" /\ ret.error = "ValueError")

C6_Witness ==
    /\ ret.op = "forward" /\ ret.path = "favor" /\ ret.output_attentions
    /\ ret.kind = "error"

\* C7: a forward call returns the attention weights only when the fallback
\* path was taken and output_attentions was requested; a fallback call with
\* output_attentions false returns the context alone.
C7_WeightsOnlyWhenRequested ==
    ret.op = "forward" =>
        /\ ret.kind = "context_weights" => (ret.path = "softmax" /\ ret.output_attentions)
        /\ (ret.path = "softmax" /\ ~ret.output_attentions) => ret.kind = "context"

\* The fallback decision the three named behaviours are specified to make.
ExpectedFallback(policy, L, M, training) ==
    \/ policy = "use_softmax_eval_only" /\ ~training /\ L < 2 * M
    \/ policy = "use_softmax_eval_and_train" /\ L < 2 * M

\* C8: the path a forward call takes is decided by (L, M, training) alone:
\* eval-only falls back exactly when not training and L < 2M, eval-and-train
\* exactly when L < 2M, never-use-softmax never.
C8_FallbackDecision ==
    (ret.op = "forward" /\ ret.path # "none" /\ fallback_policy \in BehaviorNames)
        => ((ret.path = "softmax")
              <=> ExpectedFallback(fallback_policy, ret.L, NumFeatures(orig_head_size),
                                   ret.training))

C8_Witness ==
    /\ ret.op = "forward" /\ fallback_policy = "use_softmax_eval_only"
    /\ ret.training /\ ret.L < 2 * NumFeatures(orig_head_size)
    /\ ret.path = "favor"

\* C9: the relu kernel with a supplied behaviour other than never_use_softmax
\* fails construction, with no behaviour supplied it selects
\* never_use_softmax, and a constructed relu module never takes the
\* exact-softmax path.
C9_ReluNeverFallsBack ==
    /\ (phase # "new" /\ kernel_type = "relu"
          /\ short_sequence_behavior \notin {"None", "never_use_softmax"})
         => (phase = "failed" /\ ret.kind = "error")
    /\ (phase = "ready" /\ kernel_type = "relu" /\ short_sequence_behavior = "None")
         => fallback_policy = "never_use_softmax"
    /\ (phase = "ready" /\ kernel_type = "relu") => ret.path # "softmax"

C9_Witness ==
    /\ phase = "ready" /\ kernel_type = "relu" /\ short_sequence_behavior = "None"
    /\ ret.op = "forward" /\ ~ret.training
    /\ ret.L < 2 * NumFeatures(orig_head_size)
    /\ ret.path = "favor"

\* Construction fails when d_model is not divisible by num_heads.
IndivisibleFails ==
    (phase # "new" /\ num_heads # NoneVal /\ d_model # NoneVal
       /\ num_heads > 0 /\ d_model % num_heads # 0) => phase = "failed"

\* The bookkeeping prune_heads maintains.
PruneAccounting ==
    phase = "ready" =>
        /\ d_model = orig_head_size * num_heads
        /\ num_heads = orig_num_heads - Cardinality(pruned_heads)
        /\ pruned_heads = requested_heads

\* C10 as stated: after any prune_heads calls the per-head size is unchanged
\* and d_model % num_heads == 0 remains well defined and true.
C10_Original ==
    /\ IndivisibleFails
    /\ PruneAccounting
    /\ phase = "ready" =>
        /\ num_heads > 0
        /\ d_model % num_heads = 0
        /\ d_model \div num_heads = orig_head_size

\* C10 amended: the accounting holds always; the per-head size and the
\* divisibility are those of construction while at least one head remains
\* (with every head pruned num_heads = d_model = 0).
C10_PruneHeadsBookkeeping ==
    /\ IndivisibleFails
    /\ PruneAccounting
    /\ phase = "ready" =>
        /\ num_heads >= 0
        /\ num_heads > 0 => (d_model % num_heads = 0 /\ d_model \div num_heads = orig_head_size)
        /\ num_heads = 0 => d_model = 0

C10_Witness ==
    /\ phase = "ready" /\ ret.op = "prune_heads" /\ ret.kind = "ok"
    /\ Cardinality(pruned_heads) = 1 /\ num_heads = 1 /\ d_model = 2
\* The brute-force causally masked numerator: sum over i <= t of
\* (q'_t . k'_i) * v_i.
MaskedNumerator(q, k, val, t) ==
    [l \in 1..Len(val[1]) |->
        SumTo([i \in 1..t |-> Dot(q[t], k[i]) * val[i][l]], t)]

\* The sum over all positions of outer(k'_i, v_i).
TotalOuter(k, val) ==
    [a \in 1..Len(k[1]) |-> [l \in 1..Len(val[1]) |->
        SumTo([i \in 1..Len(k) |-> k[i][a] * val[i][l]], Len(k))]]

\* C4: CausalNumerator.forward emits at every position t the causally masked
\* sum over i <= t of (q'_t . k'_i) * v_i, and saves for backward the sum
\* over all positions of outer(k'_i, v_i).
C4_NumeratorForwardIsMaskedSum ==
    numer.stage # "idle" =>
        /\ Len(numer.result) = Len(q_prime)
        /\ \A t \in 1..Len(q_prime) :
             numer.result[t] = MaskedNumerator(q_prime, k_prime, v, t)
        /\ numer.sums = TotalOuter(k_prime, v)

C4_Witness ==
    /\ numer.stage = "forward"
    /\ Len(q_prime) >= 2
    /\ Dot(q_prime[2], k_prime[1]) > 0
    /\ Dot(q_prime[2], k_prime[2]) > 0
    /\ \E l \in 1..Len(v[1]) : v[1][l] > 0 /\ v[2][l] > 0

\* The gradients of the unrolled forward loop.
UnrolledQGrad(q, k, val, g, t) ==
    [a \in 1..Len(q[1]) |->
        SumTo([i \in 1..t |-> k[i][a] * Dot(val[i], g[t])], t)]

UnrolledKGrad(q, k, val, g, t) ==
    [a \in 1..Len(k[1]) |->
        SumTo([s \in 1..Len(q) |-> IF s >= t THEN q[s][a] * Dot(g[s], val[t]) ELSE 0], Len(q))]

UnrolledVGrad(q, k, val, g, t) ==
    [l \in 1..Len(val[1]) |->
        SumTo([s \in 1..Len(q) |-> IF s >= t THEN g[s][l] * Dot(q[s], k[t]) ELSE 0], Len(q))]

\* C5: CausalNumerator.backward returns the gradients of the unrolled
\* forward loop, aligned with position t: grad_q'_t = S_t . g_t,
\* grad_k'_t = G_t . v_t and grad_v_t = G_t^T . k'_t.
C5_NumeratorBackwardIsAdjoint ==
    numer.stage = "backward" =>
        /\ numer.error = ""
        /\ \A t \in 1..Len(q_prime) :
             /\ numer.q_grads[t] = UnrolledQGrad(q_prime, k_prime, v, numer.grad_outputs, t)
             /\ numer.k_grads[t] = UnrolledKGrad(q_prime, k_prime, v, numer.grad_outputs, t)
             /\ numer.v_grads[t] = UnrolledVGrad(q_prime, k_prime, v, numer.grad_outputs, t)
\* Two output rows are the same vector (numerators over denominators).
SameRow(a, b) ==
    \A l \in 1..Len(a.num) : a.num[l] * b.den = b.num[l] * a.den

\* C3: with causal = true, the output at every position s < t is the same
\* for two inputs that differ only in the key and value at position t, on
\* the approximate path and on the exact-softmax path.
C3_CausalOutputsIgnoreLaterPositions ==
    (attn.stage = "both" /\ causal) =>
        \A s \in 1..Len(attn.q) : s < attn.t => SameRow(attn.out[s], attn.out2[s])

\* The approximate path took the non-causal branch: the torch module's
\* casual attribute is false; the tf call has no other branch.
OnNonCausalApproximatePath ==
    attn.path = "favor" /\ (backend = "torch" => casual = "false")

\* The brute-force normaliser: the sum over the key positions i the mask
\* keeps of q'_t . k'_i.
BruteForceNormalizer(q, k, mask, t) ==
    SumTo([i \in 1..Len(k) |->
              IF mask # <<>> /\ mask[i] = 0 THEN 0 ELSE Dot(q[t], k[i])], Len(k))

\* C11: on the non-causal approximate path with normalize_output = true, in
\* the PyTorch and in the TensorFlow implementation, the normaliser of every
\* query position t is d_t = sum over key positions i of q'_t . k'_i, so the
\* implied attention weights (q'_t . k'_i) / d_t sum to 1.
C11_NormalizerIsSumOverSequence ==
    (attn.stage # "idle" /\ OnNonCausalApproximatePath /\ attn.normalize_output) =>
        /\ attn.error = ""
        /\ \A t \in 1..Len(attn.q) :
             attn.out[t].den = BruteForceNormalizer(attn.q, attn.k, attn.mask, t)

\* The brute-force context: the sum over the key positions i the mask keeps
\* of (q'_t . k'_i) * v_i.
BruteForceContext(q, k, val, mask, t) ==
    [l \in 1..Len(val[1]) |->
        SumTo([i \in 1..Len(k) |->
                  IF mask # <<>> /\ mask[i] = 0 THEN 0
                  ELSE Dot(q[t], k[i]) * val[i][l]], Len(k))]

\* C12: on the non-causal approximate path the unnormalised context of every
\* query position t is the brute-force sum over key positions i of
\* (q'_t . k'_i) * v_i, the key positions with mask value 0 left out, so the
\* output at every query position is the same for two inputs that differ
\* only in the key and the value at a masked position.
C12_ContextIsBruteForceOverUnmaskedKeys ==
    (attn.stage # "idle" /\ OnNonCausalApproximatePath /\ attn.error = "") =>
        /\ \A t \in 1..Len(attn.q) :
             attn.out[t].num = BruteForceContext(attn.q, attn.k, attn.v, attn.mask, t)
        /\ (attn.stage = "both" /\ attn.mask # <<>> /\ attn.mask[attn.t] = 0) =>
               attn.out2 = attn.out

C12_Witness ==
    /\ attn.stage = "both"
    /\ OnNonCausalApproximatePath
    /\ backend = "torch"
    /\ attn.mask = <<1, 0>>
    /\ attn.t = 2
    /\ attn.k2 # attn.k
    /\ attn.v2 # attn.v
    /\ Dot(attn.q[1], attn.k2[2]) > 0
    /\ \E l \in 1..Len(attn.v[1]) : attn.out[1].num[l] > 0 /\ attn.v2[2][l] > 0

\* C13: redraw_features_now can be called on a constructed module in any
\* reachable state, also before the first forward call; every call
\* completes without error, leaves a generated feature matrix stored on the
\* module and leaves calls_since_last_redraw equal to 0.
C13_RedrawNowAlwaysSucceeds ==
    ret.op = "redraw_features_now" =>
        /\ ret.kind = "ok"
        /\ random_features # NoMatrix
        /\ calls_since_last_redraw = 0

\* C14: for every kernel kind an entry of q' and k' is
\* M^(-1/2) * kernel_output + kernel_epsilon, hence at least kernel_epsilon
\* and strictly positive (both sides multiplied by root = M^(1/2)).
C14_PrimeIsScaledKernelPlusEpsilon ==
    feature_map.stage = "done" =>
        /\ feature_map.prime_times_root =
               feature_map.kernel_output + feature_map.root * feature_map.kernel_epsilon
        /\ feature_map.prime_times_root >= feature_map.root * feature_map.kernel_epsilon
        /\ feature_map.prime_times_root > 0

Sign(x) == IF x > 0 THEN 1 ELSE IF x < 0 THEN 0 - 1 ELSE 0

\* C15 as stated: the adjustment preserves sign for every value of d: the
\* adjusted value has the sign of d, is never zero and has magnitude at
\* least normalization_stabilizer.
C15_Original ==
    normalizer.stage = "done" =>
        /\ Sign(normalizer.adjusted) = Sign(normalizer.d)
        /\ normalizer.adjusted # 0
        /\ Abs(normalizer.adjusted) >= normalizer.normalization_stabilizer

\* C15: with a positive normalization_stabilizer the adjusted value is
\* never zero and has magnitude at least normalization_stabilizer; it is d
\* itself when |d| > normalization_stabilizer and d + 2 *
\* normalization_stabilizer otherwise, so it has the sign of d for every
\* d > 0 and every d < -normalization_stabilizer and is positive for every
\* d from -normalization_stabilizer to 0.
C15_AdjustmentIsPositiveFloor ==
    normalizer.stage = "done" =>
        /\ normalizer.adjusted # 0
        /\ Abs(normalizer.adjusted) >= normalizer.normalization_stabilizer
        /\ normalizer.adjusted =
               IF Abs(normalizer.d) > normalizer.normalization_stabilizer
               THEN normalizer.d
               ELSE normalizer.d + 2 * normalizer.normalization_stabilizer
        /\ (normalizer.d > 0 \/ normalizer.d < 0 - normalizer.normalization_stabilizer) =>
               Sign(normalizer.adjusted) = Sign(normalizer.d)
        /\ (normalizer.d <= 0 /\ normalizer.d >= 0 - normalizer.normalization_stabilizer) =>
               normalizer.adjusted > 0

C15_Witness ==
    /\ normalizer.stage = "done"
    /\ normalizer.d < 0
    /\ normalizer.d >= 0 - normalizer.normalization_stabilizer
    /\ normalizer.adjusted = normalizer.d + 2 * normalizer.normalization_stabilizer

\* The sum over i <= t of k'_i.
PrefixSum(k, t) == [a \in 1..Len(k[1]) |-> SumTo([i \in 1..t |-> k[i][a]], t)]

\* The sum over s >= t of q'_s * g_s.
SuffixGrad(q, g, t) ==
    [a \in 1..Len(q[1]) |->
        SumTo([s \in 1..Len(q) |-> IF s >= t THEN q[s][a] * g[s] ELSE 0], Len(q))]

\* C16: CausalDenominator.forward emits at position t the scalar
\* q'_t . (sum over i <= t of k'_i), and CausalDenominator.backward returns
\* gradients of the shape of q' and k', aligned by position, with
\* grad_q'_t = (sum over i <= t of k'_i) * g_t and
\* grad_k'_t = sum over s >= t of q'_s * g_s.
C16_DenominatorForwardAndBackward ==
    /\ denom.stage \in {"forward", "backward"} =>
         /\ Len(denom.result) = Len(q_prime)
         /\ \A t \in 1..Len(q_prime) :
              denom.result[t] = Dot(q_prime[t], PrefixSum(k_prime, t))
    /\ denom.stage = "backward" =>
         /\ denom.q_grads.shape = <<Len(q_prime), Len(q_prime[1])>>
         /\ denom.k_grads.shape = <<Len(k_prime), Len(k_prime[1])>>
         /\ \A t \in 1..Len(q_prime) :
              /\ denom.q_grads.rows[t] =
                     EinsumScale(PrefixSum(k_prime, t), denom.grad_outputs[t])
              /\ denom.k_grads.rows[t] = SuffixGrad(q_prime, denom.grad_outputs, t)

\* C17: a forward call that does not reach the approximate computation,
\* because the fallback policy chose the exact-softmax path or because it
\* raised the unsupported-attention-weights error, leaves the stored
\* feature matrix and calls_since_last_redraw unchanged.
C17_SchedulerUntouchedOffApproximatePath ==
    [][(/\ ret'.op = "forward"
        /\ \/ ret'.path = "softmax"
           \/ ret'.path = "favor" /\ ret'.error = "ValueError")
       => /\ random_features' = random_features
          /\ calls_since_last_redraw' = calls_since_last_redraw]_vars

C17_Witness ==
    /\ ret.op = "forward"
    /\ ret.path = "softmax"
    /\ random_features # NoMatrix
    /\ calls_since_last_redraw > 0

====
